---- MODULE Spec2Model ----
(***************************************************************************)
(* Model of api/index.py: a Telegram bot served as a Flask webhook.        *)
(*                                                                         *)
(* Strings that the code inspects (message texts, button labels, command   *)
(* names) are sequences of code points: an ASCII character stands for      *)
(* itself and any other code point is written "U+XXXX".  Python's == on    *)
(* str is equality of these sequences.  Strings that the code only passes  *)
(* on (reply texts, log lines, response bodies) are short ASCII stand-ins. *)
(* An optional value (Python None, an absent JSON key) is a sequence of    *)
(* length 0 or 1.                                                          *)
(***************************************************************************)
EXTENDS Naturals, Sequences, FiniteSets

VARIABLES
    TOKEN,             \* os.environ.get('TELEGRAM_BOT_TOKEN'), read once at import
    bot,               \* the TeleBot object, or None
    message_handlers,  \* bot.message_handlers: the registered handlers, in order
    request,           \* the request handled last (None before the first)
    platform_ok,       \* whether the platform's API answered during that request
    response,          \* the (body, status) returned for it
    sends,             \* the bot.send_message calls made while handling it
    logged,            \* the logger.error lines written while handling it
    nRequests,         \* history: requests handled so far
    nDecoded,          \* history: bodies decoded into an Update so far
    nDispatched,       \* history: Updates handed to process_new_updates so far
    nAttempts,         \* history: bot.send_message calls made so far
    nMalformed         \* history: POST bodies that failed to decode so far

vars == <<TOKEN, bot, message_handlers, request, platform_ok, response, sends,
          logged, nRequests, nDecoded, nDispatched, nAttempts, nMalformed>>

(* ------------------------------ bounds -------------------------------- *)

MaxRequests == 2

(* ----------------------------- optionals ------------------------------ *)

None == <<>>
Some(x) == <<x>>
Get(o) == o[1]

(* ------------------------------ strings ------------------------------- *)

Whitespace == {" "}

\* str.startswith(prefix)
startswith(s, prefix) ==
    /\ Len(s) >= Len(prefix)
    /\ SubSeq(s, 1, Len(prefix)) = prefix

\* The index of the first element of s that is in chars, or Len(s) + 1.
FirstIn(s, chars) ==
    LET hits == {i \in 1..Len(s) : s[i] \in chars}
    IN  IF hits = {} THEN Len(s) + 1
        ELSE CHOOSE i \in hits : \A j \in hits : i <= j

\* s.split()[0] for a string that does not start with whitespace.
FirstWord(s) == SubSeq(s, 1, FirstIn(s, Whitespace) - 1)

\* s.split('@')[0]
BeforeAt(s) == SubSeq(s, 1, FirstIn(s, {"@"}) - 1)

(* ------------------------- the six menu labels ------------------------ *)

btn_sos == <<"U+1F198", " ", "U+12A5", "U+122D", "U+12F3", "U+129D", " ",
             "(", "S", "O", "S", ")">>
btn_tips == <<"U+1F9E0", " ", "U+121D", "U+12AD", "U+122D", "/", "U+12D8",
              "U+12F4", "U+12CE", "U+127D">>
btn_stories == <<"U+1F4AA", " ", "U+12E8", "U+1208", "U+12CD", "U+1325", " ",
                 "U+1273", "U+122A", "U+12AE", "U+127D">>
btn_resources == <<"U+1F4DA", " ", "U+1218", "U+122D", "U+1303", "U+12CE",
                   "U+127D">>
btn_ask == <<"U+2753", " ", "U+1325", "U+12EB", "U+1244", " ", "U+1208",
             "U+1218", "U+1320", "U+12E8", "U+1245">>
btn_about == <<"U+2139", "U+FE0F", " ", "U+1235", "U+1208", " ", "U+1266",
               "U+1271">>

Labels == {btn_sos, btn_tips, btn_stories, btn_resources, btn_ask, btn_about}

row_width == 2

\* ReplyKeyboardMarkup.add: the buttons in rows of at most w.
RECURSIVE add(_, _)
add(buttons, w) ==
    IF Len(buttons) = 0 THEN <<>>
    ELSE IF Len(buttons) <= w THEN <<buttons>>
    ELSE <<SubSeq(buttons, 1, w)>> \o add(SubSeq(buttons, w + 1, Len(buttons)), w)

\* The keyboard built with row_width=3.
main_menu_keyboard_three_per_row ==
    [row_width       |-> 3,
     resize_keyboard |-> TRUE,
     keyboard        |-> add(<<btn_sos, btn_tips, btn_stories, btn_resources,
                               btn_ask, btn_about>>, 3)]

main_menu_keyboard ==
    [row_width       |-> row_width,
     resize_keyboard |-> TRUE,
     keyboard        |-> add(<<btn_sos, btn_tips, btn_stories, btn_resources,
                               btn_ask, btn_about>>, row_width)]

\* A send_message call without reply_markup.
NoMarkup == [row_width |-> 0, resize_keyboard |-> FALSE, keyboard |-> <<>>]

(* ----------------------------- reply texts ---------------------------- *)

welcome_text(first_name) ==
    <<"Selam ", first_name, "! Welcome to the freedom journey. Choose below">>
sos_text == <<"**Calm down!** 1. put the phone down 2. cold water 3. call 4. breathe">>
tips_text == <<"**To beat addiction:** 1. remove triggers 2. fill your time">>
stories_text == <<"A young man: when I kept my phone away at night I saw change">>
resources_text == <<"Books will be uploaded soon">>
ask_text == <<"If you have a question talk to the admin">>
about_text == <<"This bot is made by volunteers">>

(* --------------------------- initialisation --------------------------- *)

\* Python truthiness of TOKEN: None and '' are both false.
Truthy(token) == token # None /\ Get(token) # ""

\* The bot built under "if TOKEN is None" instead of "if not TOKEN".
BotFor_only_none_checked(token) ==
    IF token = None THEN None
    ELSE Some([token |-> Get(token), threaded |-> FALSE])

BotFor(token) ==
    IF ~Truthy(token) THEN None
    ELSE Some([token |-> Get(token), threaded |-> FALSE])

CmdStart == <<"s", "t", "a", "r", "t">>

\* The handlers the decorators register, in source order; none without a bot.
\* A handler is its function, the kind of its filter and, for a func filter,
\* the name of the label its lambda compares the text with.
RegisteredHandlers(b) ==
    IF b = None THEN <<>>
    ELSE << [function |-> "send_welcome",       kind |-> "commands", label |-> "start"],
            [function |-> "sos_response",       kind |-> "func", label |-> "btn_sos"],
            [function |-> "tips_response",      kind |-> "func", label |-> "btn_tips"],
            [function |-> "stories_response",   kind |-> "func", label |-> "btn_stories"],
            [function |-> "resources_response", kind |-> "func", label |-> "btn_resources"],
            [function |-> "ask_response",       kind |-> "func", label |-> "btn_ask"],
            [function |-> "about_response",     kind |-> "func", label |-> "btn_about"] >>

\* The string literal in a handler's lambda.
LabelText(name) ==
    CASE name = "btn_sos"       -> btn_sos
      [] name = "btn_tips"      -> btn_tips
      [] name = "btn_stories"   -> btn_stories
      [] name = "btn_resources" -> btn_resources
      [] name = "btn_ask"       -> btn_ask
      [] name = "btn_about"     -> btn_about

\* The path of the POST route.
WebhookPath(token) == IF Truthy(token) THEN <<"/", Get(token)>> ELSE <<"/", "webhook">>

(* ------------------------------ decoding ------------------------------ *)

\* request.get_data().decode('utf-8') followed by Update.de_json: None when
\* either raises (bytes that are not UTF-8, text that is not JSON, an object
\* without update_id, a message without chat).  The Message gets the sender
\* under from_user and a content_type derived from the presence of text.
de_json(body) ==
    IF ~body.utf8 \/ body.json = None THEN None
    ELSE LET obj == Get(body.json) IN
         IF obj.update_id = None THEN None
         ELSE IF obj.message = None
              THEN Some([update_id |-> Get(obj.update_id), message |-> None])
         ELSE LET m == Get(obj.message) IN
              IF m.chat = None THEN None
              ELSE Some([update_id |-> Get(obj.update_id),
                         message   |-> Some([chat         |-> Get(m.chat),
                                             from_user    |-> m.from,
                                             text         |-> m.text,
                                             content_type |-> IF m.text = None
                                                              THEN "photo"
                                                              ELSE "text"])])

(* ------------------------------ handlers ------------------------------ *)

\* One bot.send_message call and whether the platform accepted it.
Attempt(chat_id, text, parse_mode, reply_markup, ok) ==
    [chat_id |-> chat_id, text |-> text, parse_mode |-> parse_mode,
     reply_markup |-> reply_markup, ok |-> ok]

\* What a handler call did: its send_message calls, whether it raised, its log.
Outcome(s, raised, log) == [sends |-> s, raised |-> raised, log |-> log]

\* send_welcome trying the send a second time after a failure.
send_welcome_retry(message, ok) ==
    IF message.from_user = None
    THEN Outcome(<<>>, FALSE, <<"Error in start command">>)
    ELSE LET a == Attempt(message.chat.id,
                          welcome_text(Get(message.from_user).first_name),
                          "", main_menu_keyboard, ok)
         IN  Outcome(IF ok THEN <<a>> ELSE <<a, a>>, FALSE,
                     IF ok THEN <<>> ELSE <<"Error in start command">>)

send_welcome(message, ok) ==
    IF message.from_user = None
    THEN Outcome(<<>>, FALSE, <<"Error in start command">>)
    ELSE LET a == Attempt(message.chat.id,
                          welcome_text(Get(message.from_user).first_name),
                          "", main_menu_keyboard, ok)
         IN  Outcome(<<a>>, FALSE, IF ok THEN <<>> ELSE <<"Error in start command">>)

sos_response(message, ok) ==
    Outcome(<<Attempt(message.chat.id, sos_text, "Markdown", NoMarkup, ok)>>,
            FALSE, IF ok THEN <<>> ELSE <<"Error in SOS">>)

\* tips_response sending the text of stories_response.
tips_response_wrong_text(message, ok) ==
    Outcome(<<Attempt(message.chat.id, stories_text, "", NoMarkup, ok)>>, ~ok, <<>>)

tips_response(message, ok) ==
    Outcome(<<Attempt(message.chat.id, tips_text, "", NoMarkup, ok)>>, ~ok, <<>>)

stories_response(message, ok) ==
    Outcome(<<Attempt(message.chat.id, stories_text, "", NoMarkup, ok)>>, ~ok, <<>>)

resources_response(message, ok) ==
    Outcome(<<Attempt(message.chat.id, resources_text, "", NoMarkup, ok)>>, ~ok, <<>>)

ask_response(message, ok) ==
    Outcome(<<Attempt(message.chat.id, ask_text, "", NoMarkup, ok)>>, ~ok, <<>>)

about_response(message, ok) ==
    Outcome(<<Attempt(message.chat.id, about_text, "", NoMarkup, ok)>>, ~ok, <<>>)

Call(function, message, ok) ==
    CASE function = "send_welcome"       -> send_welcome(message, ok)
      [] function = "sos_response"       -> sos_response(message, ok)
      [] function = "tips_response"      -> tips_response(message, ok)
      [] function = "stories_response"   -> stories_response(message, ok)
      [] function = "resources_response" -> resources_response(message, ok)
      [] function = "ask_response"       -> ask_response(message, ok)
      [] function = "about_response"     -> about_response(message, ok)

(* ------------------------------ dispatch ------------------------------ *)

\* telebot.util.extract_command: the word after the leading '/', up to the
\* first whitespace or '@'; None when the text does not start with '/'.
extract_command(text) ==
    IF startswith(text, <<"/">>) THEN Some(Tail(BeforeAt(FirstWord(text))))
    ELSE None

\* The filter of @bot.message_handler(commands=['start']).
commands_filter(message) ==
    /\ message.content_type = "text"
    /\ extract_command(Get(message.text)) = Some(CmdStart)

\* s.rstrip(), for the filter that trims before comparing.
rstrip(s) ==
    LET keep == {i \in 1..Len(s) : s[i] \notin Whitespace}
    IN  IF keep = {} THEN <<>>
        ELSE SubSeq(s, 1, CHOOSE i \in keep : \A j \in keep : j <= i)

func_filter_trimmed(message, label) ==
    message.text # None /\ rstrip(Get(message.text)) = label

\* The filter lambda message: message.text == label.
func_filter(message, label) == message.text = Some(label)

\* Whether a registered handler accepts the message (content_types defaults
\* to ['text']).
test_message_handler(handler, message) ==
    /\ message.content_type = "text"
    /\ IF handler.kind = "commands" THEN commands_filter(message)
       ELSE func_filter(message, LabelText(handler.label))

\* A handler that is consumed by running, as a next-step handler is.
HandlersAfter_one_shot(handlers, i) ==
    SubSeq(handlers, 1, i - 1) \o SubSeq(handlers, i + 1, Len(handlers))

\* The handlers left registered after one has run: all of them.
HandlersAfter(handlers, i) == handlers

\* bot.process_new_updates([update]) with threaded=False: the first handler
\* that accepts the message runs in the caller's thread, and what it raises
\* reaches the caller.  An Update without a message reaches no handler.
process_new_updates(handlers, update, ok) ==
    IF update.message = None
    THEN [sends |-> <<>>, raised |-> FALSE, log |-> <<>>, handlers |-> handlers]
    ELSE LET message == Get(update.message)
             hits == {i \in 1..Len(handlers) :
                        test_message_handler(handlers[i], message)}
         IN  IF hits = {}
             THEN [sends |-> <<>>, raised |-> FALSE, log |-> <<>>,
                   handlers |-> handlers]
             ELSE LET i == CHOOSE i \in hits : \A j \in hits : i <= j
                      out == Call(handlers[i].function, message, ok)
                  IN  [sends |-> out.sends, raised |-> out.raised,
                       log |-> out.log, handlers |-> HandlersAfter(handlers, i)]

(* ------------------------------- routes ------------------------------- *)

Reply(body, status) == [body |-> body, status |-> status]

\* What one call of a route did.
Handled(resp, s, log, tried, decoded, dispatched, handlers) ==
    [response |-> resp, sends |-> s, log |-> log, malformed |-> tried /\ ~decoded,
     decoded |-> decoded, dispatched |-> dispatched, handlers |-> handlers]

\* getMessage without a bot: nothing is decoded.
NotConfigured(handlers) ==
    Handled(Reply("Bot token not configured", 500), <<>>, <<>>, FALSE, FALSE, FALSE,
            handlers)

\* The except branch acknowledging the update instead of answering 500.
DecodeFailed_acknowledged(handlers) ==
    Handled(Reply("!", 200), <<>>, <<"Error processing update">>, TRUE, FALSE, FALSE,
            handlers)

\* getMessage's except branch when the body does not decode.
DecodeFailed(handlers) ==
    Handled(Reply("Error", 500), <<>>, <<"Error processing update">>, TRUE, FALSE,
            FALSE, handlers)

\* POST /<TOKEN or 'webhook'>
getMessage(b, handlers, body, ok) ==
    IF b = None THEN NotConfigured(handlers)
    ELSE LET update == de_json(body) IN
         IF update = None THEN DecodeFailed(handlers)
         ELSE LET done == process_new_updates(handlers, Get(update), ok) IN
              IF done.raised
              THEN Handled(Reply("Error", 500), done.sends,
                           done.log \o <<"Error processing update">>, TRUE, TRUE,
                           TRUE, done.handlers)
              ELSE Handled(Reply("!", 200), done.sends, done.log, TRUE, TRUE,
                           TRUE, done.handlers)

\* webhook answering 500 when get_webhook_info fails.
webhook_info_required(b, ok) ==
    IF b = None
    THEN Reply("Error: TELEGRAM_BOT_TOKEN not set in Vercel Environment Variables.", 500)
    ELSE IF ok THEN Reply("Bot is running! Webhook URL: ...", 200)
    ELSE Reply("Bot is running, but failed to get info: ...", 500)

\* GET /
webhook(b, ok) ==
    IF b = None
    THEN Reply("Error: TELEGRAM_BOT_TOKEN not set in Vercel Environment Variables.", 500)
    ELSE IF ok THEN Reply("Bot is running! Webhook URL: ...", 200)
    ELSE Reply("Bot is running, but failed to get info: ...", 200)

(* ------------------------------- inputs ------------------------------- *)

ChatIds == {1, 2}
FirstNames == {"Abel", "Sara"}

Slash == <<"/">>
TextStartWithArg == Slash \o CmdStart \o <<" ", "n", "o", "w">>
TextStartAtBot == Slash \o CmdStart \o <<"@", "s", "n", "o", "w">>
TextStartUpper == <<"/", "S", "T", "A", "R", "T">>
TextStartLonger == Slash \o CmdStart \o <<"x">>
TextStartNoSlash == CmdStart
TextStartLeadingSpace == <<" ">> \o Slash \o CmdStart
TextHelp == <<"/", "h", "e", "l", "p">>
TextRandom == <<"r", "a", "n", "d", "o", "m", " ", "t", "e", "x", "t">>
TextSosTrailingSpace == btn_sos \o <<" ">>
TextSosLowerCase == <<"U+1F198", " ", "U+12A5", "U+122D", "U+12F3", "U+129D", " ",
                      "(", "s", "o", "s", ")">>
TextTipsLeadingSpace == <<" ">> \o btn_tips
TextAboutNoSelector == <<"U+2139", " ", "U+1235", "U+1208", " ", "U+1266", "U+1271">>

Texts ==
    Labels \cup
    {Slash \o CmdStart, TextStartWithArg, TextStartAtBot, TextStartUpper,
     TextStartLonger, TextStartNoSlash, TextStartLeadingSpace, Slash, TextHelp,
     TextRandom, TextSosTrailingSpace, TextSosLowerCase, TextTipsLeadingSpace,
     TextAboutNoSelector}

JsonMessages ==
    [chat : {Some([id |-> c]) : c \in ChatIds},
     from : {None} \cup {Some([first_name |-> n]) : n \in FirstNames},
     text : {None} \cup {Some(t) : t \in Texts}]

\* A message object without the required chat key.
JsonMessageNoChat ==
    [chat |-> None, from |-> Some([first_name |-> "Abel"]),
     text |-> Some(Slash \o CmdStart)]

JsonObjects ==
    [update_id : {Some(1)},
     message   : {None} \cup {Some(m) : m \in JsonMessages \cup {JsonMessageNoChat}}]
    \cup {[update_id |-> None, message |-> None]}

Bodies ==
    {[utf8 |-> FALSE, json |-> None], [utf8 |-> TRUE, json |-> None]}
    \cup {[utf8 |-> TRUE, json |-> Some(o)] : o \in JsonObjects}

EmptyBody == [utf8 |-> TRUE, json |-> None]

Tokens == {None, Some(""), Some("123:ABC")}

(* --------------------------- the state machine ------------------------ *)

Init ==
    /\ TOKEN \in Tokens
    /\ bot = BotFor(TOKEN)
    /\ message_handlers = RegisteredHandlers(bot)
    /\ request = None
    /\ platform_ok = TRUE
    /\ response = None
    /\ sends = <<>>
    /\ logged = <<>>
    /\ nRequests = 0
    /\ nDecoded = 0
    /\ nDispatched = 0
    /\ nAttempts = 0
    /\ nMalformed = 0

\* One POST to the webhook route, handled from receipt to response.
PostWebhook ==
    /\ nRequests < MaxRequests
    /\ \E body \in Bodies, ok \in BOOLEAN :
       \E r \in {getMessage(bot, message_handlers, body, ok)} :
         /\ request' = Some([method |-> "POST", path |-> WebhookPath(TOKEN),
                             body |-> body])
         /\ platform_ok' = ok
         /\ response' = Some(r.response)
         /\ sends' = r.sends
         /\ logged' = r.log
         /\ message_handlers' = r.handlers
         /\ nRequests' = nRequests + 1
         /\ nDecoded' = nDecoded + (IF r.decoded THEN 1 ELSE 0)
         /\ nDispatched' = nDispatched + (IF r.dispatched THEN 1 ELSE 0)
         /\ nAttempts' = nAttempts + Len(r.sends)
         /\ nMalformed' = nMalformed + (IF r.malformed THEN 1 ELSE 0)
         /\ UNCHANGED <<TOKEN, bot>>

\* One GET of the root path.
GetRoot ==
    /\ nRequests < MaxRequests
    /\ \E ok \in BOOLEAN :
         /\ request' = Some([method |-> "GET", path |-> <<"/">>, body |-> EmptyBody])
         /\ platform_ok' = ok
         /\ response' = Some(webhook(bot, ok))
         /\ sends' = <<>>
         /\ logged' = <<>>
         /\ nRequests' = nRequests + 1
         /\ UNCHANGED <<TOKEN, bot, message_handlers, nDecoded, nDispatched,
                        nAttempts, nMalformed>>

Next == PostWebhook \/ GetRoot

Spec == Init /\ [][Next]_vars

(* ---------------------- vocabulary of the properties ------------------ *)

Configured == Truthy(TOKEN)
IsPost == request # None /\ Get(request).method = "POST"
IsGet == request # None /\ Get(request).method = "GET"
Status == Get(response).status

\* The Update of the last request: a POST whose body decodes.
HasUpdate == IsPost /\ de_json(Get(request).body) # None
TheUpdate == Get(de_json(Get(request).body))
HasMessage == HasUpdate /\ TheUpdate.message # None
TheMessage == Get(TheUpdate.message)

\* The message carries the /start command.
IsStart ==
    /\ HasMessage
    /\ TheMessage.text # None
    /\ extract_command(Get(TheMessage.text)) = Some(CmdStart)

\* The message's text is one of the six labels.
IsLabel == HasMessage /\ TheMessage.text # None /\ Get(TheMessage.text) \in Labels

\* The reply the menu promises for each label.
ReplyOf(label) ==
    CASE label = btn_sos       -> sos_text
      [] label = btn_tips      -> tips_text
      [] label = btn_stories   -> stories_text
      [] label = btn_resources -> resources_text
      [] label = btn_ask       -> ask_text
      [] label = btn_about     -> about_text

\* All six labels, two per row.
SixLabelsTwoPerRow ==
    << <<btn_sos, btn_tips>>, <<btn_stories, btn_resources>>, <<btn_ask, btn_about>> >>

Contains(text, piece) == \E i \in 1..Len(text) : text[i] = piece

\* What a process that has handled nothing yet makes of a request.
FreshOutcome(req, ok) ==
    IF req.method = "POST"
    THEN LET r == getMessage(BotFor(TOKEN), RegisteredHandlers(BotFor(TOKEN)),
                             req.body, ok)
         IN  [response |-> r.response, sends |-> r.sends]
    ELSE [response |-> webhook(BotFor(TOKEN), ok), sends |-> <<>>]

(* ------------------------------ properties ---------------------------- *)

\* C1: with the credential configured, a POST carrying any Update that
\* decodes is answered 200, whether or not a send was made and whether or
\* not it failed.
C1_ValidUpdateAnswered200 ==
    (Configured /\ HasUpdate) => Status = 200

\* C2: a POST is answered 500 exactly when its body does not decode or the
\* credential is unconfigured, and 200 in every other case.
C2_Status500IffDecodeOrConfig ==
    IsPost =>
        /\ Status \in {200, 500}
        /\ Status = 500 <=> (~Configured \/ ~HasUpdate)

\* C3 as claimed: every Update whose command is /start gets exactly one send,
\* to the originating chat, with the sender's name and the six-label keyboard
\* two per row.
C3_EveryStartWelcomed ==
    (Configured /\ IsStart) =>
        /\ Len(sends) = 1
        /\ sends[1].chat_id = TheMessage.chat.id
        /\ TheMessage.from_user # None
        /\ Contains(sends[1].text, Get(TheMessage.from_user).first_name)
        /\ sends[1].reply_markup.keyboard = SixLabelsTwoPerRow

\* C3 as amended: every Update whose command is /start and whose message
\* carries a sender gets exactly one send, to the originating chat, with the
\* sender's name and the six-label keyboard two per row.
C3_StartWithSenderWelcomed ==
    (Configured /\ IsStart /\ TheMessage.from_user # None) =>
        /\ Len(sends) = 1
        /\ sends[1].chat_id = TheMessage.chat.id
        /\ Contains(sends[1].text, Get(TheMessage.from_user).first_name)
        /\ sends[1].reply_markup.keyboard = SixLabelsTwoPerRow

C3_Witness ==
    /\ Configured /\ IsStart
    /\ Get(TheMessage.text) = TextStartAtBot
    /\ TheMessage.from_user = Some([first_name |-> "Sara"])
    /\ TheMessage.chat.id = 2
    /\ Len(sends) = 1 /\ sends[1].ok

\* C4: every Update whose text equals one of the six labels gets exactly one
\* send, to the originating chat, carrying that label's reply text and no
\* other label's.
C4_LabelGetsItsReply ==
    (Configured /\ IsLabel) =>
        /\ Len(sends) = 1
        /\ sends[1].chat_id = TheMessage.chat.id
        /\ sends[1].text = ReplyOf(Get(TheMessage.text))
        /\ \A l \in Labels \ {Get(TheMessage.text)} : sends[1].text # ReplyOf(l)

C4_Witness ==
    /\ Configured /\ IsLabel
    /\ Get(TheMessage.text) = btn_tips
    /\ TheMessage.chat.id = 2
    /\ Len(sends) = 1 /\ sends[1].text = tips_text

\* C5: an Update with no /start command whose text is not exactly one of the
\* six labels (a label with trailing whitespace or other casing, no text at
\* all) gets no send and raises no error.
C5_NoMatchNoSend ==
    (Configured /\ HasUpdate /\ ~IsStart /\ ~IsLabel) =>
        /\ sends = <<>>
        /\ logged = <<>>
        /\ Status = 200

C5_Witness ==
    /\ Configured /\ HasMessage
    /\ TheMessage.text = Some(TextSosTrailingSpace)
    /\ sends = <<>> /\ Status = 200

\* C6: a POST whose body does not decode gets no send and status 500, and
\* every request after it is handled as a process that never saw it would
\* handle it.
C6_DecodeFailureIsLocal ==
    /\ (IsPost /\ ~HasUpdate) => (Status = 500 /\ sends = <<>>)
    /\ (nMalformed > 0 /\ request # None) =>
           [response |-> Get(response), sends |-> sends]
               = FreshOutcome(Get(request), platform_ok)

C6_Witness ==
    /\ nMalformed > 0
    /\ Configured /\ IsLabel
    /\ Len(sends) = 1 /\ sends[1].ok
    /\ Status = 200

\* C7: a GET of the root is answered 200 whenever the credential is
\* configured, also when the webhook-info query fails, and 500 whenever it
\* is absent; it processes no update and makes no send.
C7_RootIsLivenessOnly ==
    [][(nRequests' # nRequests /\ Get(request').method = "GET") =>
          /\ Get(response').status = IF Configured THEN 200 ELSE 500
          /\ sends' = <<>>
          /\ nDecoded' = nDecoded
          /\ nDispatched' = nDispatched
          /\ nAttempts' = nAttempts]_vars

C7_Witness ==
    /\ IsGet /\ Configured /\ ~platform_ok
    /\ Status = 200
    /\ nAttempts > 0

\* C8: with the credential absent the process stays unconfigured: every POST
\* and every GET is answered 500, no body is decoded or dispatched, and no
\* send is ever made.
C8_UnconfiguredServes500 ==
    ~Configured =>
        /\ bot = None
        /\ request # None => Status = 500
        /\ nDecoded = 0
        /\ nDispatched = 0
        /\ nAttempts = 0
        /\ sends = <<>>

C8_Witness ==
    /\ ~Configured
    /\ nRequests >= 2
    /\ IsPost
    /\ Get(request).body.json # None
    /\ IsStart
    /\ Status = 500

\* C9: no send is retried and no Update triggers more than one send: send
\* attempts never outnumber decoded Updates, the attempts of a request
\* belong to its one decoded Update, and a failed attempt is the last one.
C9_AtMostOneAttemptPerUpdate ==
    /\ nAttempts <= nDecoded
    /\ nAttempts <= nDispatched
    /\ Len(sends) <= 1
    /\ sends # <<>> => HasUpdate
    /\ \A i \in 1..Len(sends) : ~sends[i].ok => i = Len(sends)

C9_Witness ==
    /\ IsStart
    /\ Len(sends) = 1 /\ ~sends[1].ok
    /\ nAttempts = 2 /\ nDecoded = 2

====
